---- MODULE Spec2Model ----
(***************************************************************************)
(* State-machine model of the Date & Time settings page of cosmic-settings *)
(* (cosmic-settings/src/pages/time/date.rs): the Page snapshot, the        *)
(* reducer Page::update, the activation task of Page::on_enter, the        *)
(* background tasks that talk to the time service (timedate1 over zbus),   *)
(* the applet configuration store, the weekday dropdown codec and the      *)
(* date formatter.                                                         *)
(*                                                                         *)
(* Option<T> values are modelled as sequences: None is <<>>, Some(v) is    *)
(* <<v>>.  Every `.await` of a task is one step of that task, so that      *)
(* tasks interleave with one another and with the reducer exactly at the   *)
(* suspension points of the code.  A finished command future appends its   *)
(* message to `inbox`; the runtime hands the messages to Page::update in   *)
(* arrival order.                                                          *)
(***************************************************************************)
EXTENDS Integers, Sequences, FiniteSets, Bags, TLC

VARIABLES
    \* fields of struct Page
    first_day_of_week,
    military_time,
    ntp_enabled,
    show_date_in_top_panel,
    local_time,
    timezone,
    timezone_list,
    formatted_date,
    \* the store behind Page::cosmic_applet_config
    cosmic_applet_config,
    \* the environment
    service,        \* state of the time service behind TimeDateProxy
    LANG,           \* the process environment's LANG, an Option
    now,            \* the wall clock: what chrono::Local::now() returns
    \* scheduling
    tasks,          \* bag of the futures in flight
    inbox,          \* messages of finished command futures, in arrival order
    panicked,       \* TRUE once a reducer step has panicked
    \* history
    last,           \* the message the last reducer step applied, and its origin
    applied         \* kinds of messages applied so far (Refresh, Automatic)

vars == <<first_day_of_week, military_time, ntp_enabled, show_date_in_top_panel,
          local_time, timezone, timezone_list, formatted_date,
          cosmic_applet_config, service, LANG, now, tasks, inbox, panicked,
          last, applied>>

page == <<first_day_of_week, military_time, ntp_enabled, show_date_in_top_panel,
          local_time, timezone, timezone_list, formatted_date>>

None == <<>>
Some(v) == <<v>>

----------------------------------------------------------------------------
(* Bounds of the model.                                                    *)

\* futures in flight plus undelivered messages
MaxTasks == 2
\* largest index a Timezone message carries
MaxIndex == 2
\* largest first-day-of-week code found in the configuration store
MaxCode == 7
\* number of entries of the weekday dropdown (static WEEKDAYS: [String; 4])
WeekdayCount == 4

\* the value `first_day_of_week` falls back to when the store cannot be read
DefaultFirstDayOfWeek == 6

----------------------------------------------------------------------------
(* Pure helpers.                                                           *)

\* Vec::get: the entry at a 0-based index, None past the end
get(list, index) == IF index < Len(list) THEN Some(list[index + 1]) ELSE None

\* Iterator::position: the 0-based index of the first entry equal to tz
position(list, tz) ==
    LET hits == {i \in 1..Len(list) : list[i] = tz}
    IN  IF hits = {} THEN None
        ELSE Some((CHOOSE i \in hits : \A j \in hits : i <= j) - 1)

\* Result<bool, _>::unwrap_or_default and friends: a failed reply is the default
unwrap_or_default(reply, default) == IF reply = None THEN default ELSE reply[1]

\* Variant of selected_weekday: a rotation of the week instead of the table.
selected_weekday_modular(code) == Some((code + 3) % 7)

\* The dropdown's selected entry for a stored first-day-of-week code
selected_weekday(code) ==
    CASE code = 4 -> Some(0)   \* friday
      [] code = 5 -> Some(1)   \* saturday
      [] code = 0 -> Some(3)   \* monday
      [] OTHER    -> Some(2)   \* sunday

\* Variant of weekday_code: codes counted from Sunday = 0.
weekday_code_from_sunday(v) ==
    CASE v = 0 -> 5   \* friday
      [] v = 1 -> 6   \* saturday
      [] v = 3 -> 1   \* monday
      [] OTHER -> 0   \* sunday

\* The first-day-of-week code the dropdown's closure sends for entry v
weekday_code(v) ==
    CASE v = 0 -> 4   \* friday
      [] v = 1 -> 5   \* saturday
      [] v = 3 -> 0   \* monday
      [] OTHER -> 6   \* sunday

\* Locale::from_str accepts these identifiers; "C" and "" are not locales
ParsableLocales == {"en_US", "tlh"}
\* DateTimeFormatter::try_new_experimental has data for these
FormatterLocales == {"en_US"}

\* LANG is kept split at '.': "en_US.UTF-8" is <<"en_US", "UTF-8">>
LangValues == {None, Some(<<"C">>), Some(<<"en_US", "UTF-8">>), Some(<<"tlh">>)}

\* fn locale(): LANG up to the first '.', parsed; None stands for Err
locale ==
    IF LANG = None THEN None
    ELSE LET first == Head(LANG[1])
         IN  IF first \in ParsableLocales THEN Some(first) ELSE None

MonthLong == <<"January", "February", "March", "April", "May", "June", "July",
               "August", "September", "October", "November", "December">>

TwoDigits(n) == IF n < 10 THEN "0" \o ToString(n) ELSE ToString(n)

\* the hour under HourCycle::H12 / HourCycle::H23
HourField(hour, military) ==
    IF military THEN TwoDigits(hour)
    ELSE ToString(IF hour % 12 = 0 THEN 12 ELSE hour % 12)

DayPeriod(hour, military) ==
    IF military THEN "" ELSE IF hour < 12 THEN " AM" ELSE " PM"

\* the unwrap() of the formatter's construction panics for this locale
format_date_panics == locale /= None /\ locale[1] \notin FormatterLocales

\* Variant of format_date: without a usable locale the string is two dashes.
format_date_dashes(date, military) ==
    IF locale = None THEN "--"
    ELSE MonthLong[date.month] \o " " \o ToString(date.day) \o ", "
         \o ToString(date.year) \o ", " \o HourField(date.hour, military)
         \o ":" \o TwoDigits(date.minute) \o DayPeriod(date.hour, military)

\* fn format_date: year, long month, day, hour and minute of `date`
format_date(date, military) ==
    IF locale = None THEN ""
    ELSE MonthLong[date.month] \o " " \o ToString(date.day) \o ", "
         \o ToString(date.year) \o ", " \o HourField(date.hour, military)
         \o ":" \o TwoDigits(date.minute) \o DayPeriod(date.hour, military)

\* fl!("unknown")
fl_unknown == "Unknown"

\* the readings of the wall clock during a run, in order
ClockSamples ==
    << [year |-> 2024, month |-> 3, day |-> 9, hour |-> 0, minute |-> 5, second |-> 0],
       [year |-> 2024, month |-> 3, day |-> 9, hour |-> 13, minute |-> 30, second |-> 59] >>

\* fn update_local_time(): the wall clock's reading as a DateTime<Iso>
local_now == ClockSamples[now]

----------------------------------------------------------------------------
(* The time service, the configuration store and the messages.             *)

\* identifiers the time service lists, in its order
ServiceTimezones == <<"Europe/Paris", "UTC">>
\* what the time service may report as the current timezone
CurrentTimezones == {"UTC", "Etc/Custom"}

\* struct Info
NoInfo == [ntp_enabled |-> FALSE, timezone_id |-> None, timezone_list |-> <<>>]

\* enum Message; the fields a variant does not carry keep these defaults
BaseMessage(kind) ==
    [kind |-> kind, enable |-> FALSE, index |-> 0, why |-> "", info |-> NoInfo]
Automatic(enable) == [BaseMessage("Automatic") EXCEPT !.enable = enable]
Error(why) == [BaseMessage("Error") EXCEPT !.why = why]
MilitaryTime(enable) == [BaseMessage("MilitaryTime") EXCEPT !.enable = enable]
NoneMessage == BaseMessage("None")
FirstDayOfWeek(weekday) == [BaseMessage("FirstDayOfWeek") EXCEPT !.index = weekday]
Refresh(info) == [BaseMessage("Refresh") EXCEPT !.info = info]
ShowDate(enable) == [BaseMessage("ShowDate") EXCEPT !.enable = enable]
Timezone(timezone_id) == [BaseMessage("Timezone") EXCEPT !.index = timezone_id]
UpdateTime == BaseMessage("UpdateTime")

\* the messages the widgets of the page send
UiMessages ==
    {Automatic(b) : b \in BOOLEAN} \cup {MilitaryTime(b) : b \in BOOLEAN}
    \cup {FirstDayOfWeek(weekday_code(v)) : v \in 0..(WeekdayCount - 1)}
    \cup {ShowDate(b) : b \in BOOLEAN}
    \cup {Timezone(i) : i \in 0..MaxIndex}
    \cup {NoneMessage}

\* A future in flight: the variant that spawned it, the await it is suspended
\* at, what it captured and what it has read so far.
NewTask(kind, enable, tz, index) ==
    [kind |-> kind, pc |-> "connect", enable |-> enable, timezone |-> tz,
     index |-> index, can_ntp_reply |-> None, ntp_reply |-> None,
     list_reply |-> None, timezone_reply |-> None,
     can_ntp |-> FALSE, ntp_enabled |-> FALSE, timezone_list |-> <<>>]

\* origin of a message sent by a widget
Ui == NewTask("ui", FALSE, "", 0)
\* `last` after a transition that is not a reducer step
Idle == [message |-> BaseMessage("-"), origin |-> Ui]

InFlight == BagCardinality(tasks) + Len(inbox)
CanSpawn == InFlight < MaxTasks

Spawn(t) == tasks (+) SetToBag({t})
Retire(t) == tasks (-) SetToBag({t})
Step(t, u) == (tasks (-) SetToBag({t})) (+) SetToBag({u})

----------------------------------------------------------------------------
(* Construction.                                                           *)

\* what the store holds when the page is constructed; None: the key cannot be read
StoredConfigs ==
    [military_time : {None, Some(TRUE)},
     first_day_of_week : {None} \cup {Some(c) : c \in 0..MaxCode},
     show_date_in_top_panel : {None, Some(FALSE)}]

\* Variant of Construct: automatic sync starts switched on.
ConstructSyncOn(configs, services, langs) ==
    /\ cosmic_applet_config \in configs
    /\ \E opened \in BOOLEAN :
           IF opened
           THEN /\ military_time =
                       unwrap_or_default(cosmic_applet_config.military_time, FALSE)
                /\ first_day_of_week =
                       unwrap_or_default(cosmic_applet_config.first_day_of_week,
                                         DefaultFirstDayOfWeek)
                /\ show_date_in_top_panel =
                       unwrap_or_default(cosmic_applet_config.show_date_in_top_panel, TRUE)
                /\ panicked = FALSE
           ELSE /\ military_time = FALSE
                /\ first_day_of_week = DefaultFirstDayOfWeek
                /\ show_date_in_top_panel = TRUE
                /\ panicked = TRUE
    /\ formatted_date = ""
    /\ local_time = None
    /\ ntp_enabled = TRUE
    /\ timezone = None
    /\ timezone_list = <<>>
    /\ service \in services
    /\ LANG \in langs
    /\ now = 1
    /\ tasks = EmptyBag
    /\ inbox = <<>>
    /\ last = Idle
    /\ applied = {}

\* impl Default for Page, over a store holding one of `configs`.  The store is
\* opened first (Config::new(..).unwrap()): when that fails Page::default
\* panics before any key is read and no page comes to exist; `panicked` is
\* then true from the start, no step follows, and the fields of the page
\* stand at placeholder values.
Construct(configs, services, langs) ==
    /\ cosmic_applet_config \in configs
    /\ \E opened \in BOOLEAN :
           IF opened
           THEN /\ military_time =
                       unwrap_or_default(cosmic_applet_config.military_time, FALSE)
                /\ first_day_of_week =
                       unwrap_or_default(cosmic_applet_config.first_day_of_week,
                                         DefaultFirstDayOfWeek)
                /\ show_date_in_top_panel =
                       unwrap_or_default(cosmic_applet_config.show_date_in_top_panel, TRUE)
                /\ panicked = FALSE
           ELSE /\ military_time = FALSE
                /\ first_day_of_week = DefaultFirstDayOfWeek
                /\ show_date_in_top_panel = TRUE
                /\ panicked = TRUE
    /\ formatted_date = ""
    /\ local_time = None
    /\ ntp_enabled = FALSE
    /\ timezone = None
    /\ timezone_list = <<>>
    /\ service \in services
    /\ LANG \in langs
    /\ now = 1
    /\ tasks = EmptyBag
    /\ inbox = <<>>
    /\ last = Idle
    /\ applied = {}

----------------------------------------------------------------------------
(* Page::update, one definition per match arm.                             *)

\* Variant of ConfigSet: a failed write leaves the key unset.
ConfigSetClears(key, value) ==
    \E ok \in BOOLEAN :
        cosmic_applet_config' =
            IF ok THEN [cosmic_applet_config EXCEPT ![key] = Some(value)]
            ELSE [cosmic_applet_config EXCEPT ![key] = None]

\* ConfigSet::set: the write lands or fails, and the caller only logs a failure
ConfigSet(key, value) ==
    \E ok \in BOOLEAN :
        cosmic_applet_config' =
            IF ok THEN [cosmic_applet_config EXCEPT ![key] = Some(value)]
            ELSE cosmic_applet_config

\* Page::update_local_time under the 24-hour flag the caller has just stored.
\* A panic of format_date leaves the assignment to formatted_date undone.
update_local_time(military) ==
        /\ local_time' = Some(local_now)
        /\ IF local_time' /= None /\ format_date_panics
           THEN /\ panicked' = TRUE
                /\ formatted_date' = formatted_date
           ELSE /\ panicked' = FALSE
                /\ formatted_date' =
                       IF local_time' /= None
                       THEN format_date(local_time'[1], military)
                       ELSE fl_unknown

UpdateAutomatic(m) ==
    /\ m.kind = "Automatic"
    /\ CanSpawn
    /\ ntp_enabled' = m.enable
    /\ tasks' = Spawn(NewTask("Automatic", m.enable, "", 0))
    /\ UNCHANGED <<first_day_of_week, military_time, show_date_in_top_panel,
                   local_time, timezone, timezone_list, formatted_date,
                   cosmic_applet_config, panicked>>

\* Variant of UpdateMilitaryTime: the flag is stored and persisted, the cached
\* string is left as it was.
UpdateMilitaryTimeStale(m) ==
    /\ m.kind = "MilitaryTime"
    /\ military_time' = m.enable
    /\ ConfigSet("military_time", m.enable)
    /\ UNCHANGED <<first_day_of_week, ntp_enabled, show_date_in_top_panel,
                   local_time, formatted_date, panicked,
                   timezone, timezone_list, tasks>>

UpdateMilitaryTime(m) ==
    /\ m.kind = "MilitaryTime"
    /\ military_time' = m.enable
    /\ update_local_time(m.enable)
    /\ IF panicked' THEN UNCHANGED cosmic_applet_config
       ELSE ConfigSet("military_time", m.enable)
    /\ UNCHANGED <<first_day_of_week, ntp_enabled, show_date_in_top_panel,
                   timezone, timezone_list, tasks>>

UpdateFirstDayOfWeek(m) ==
    /\ m.kind = "FirstDayOfWeek"
    /\ first_day_of_week' = m.index
    /\ ConfigSet("first_day_of_week", m.index)
    /\ UNCHANGED <<military_time, ntp_enabled, show_date_in_top_panel, local_time,
                   timezone, timezone_list, formatted_date, tasks, panicked>>

\* Variant of UpdateShowDate: a failed write takes the in-memory value back.
UpdateShowDateRollback(m) ==
    /\ m.kind = "ShowDate"
    /\ ConfigSet("show_date_in_top_panel", m.enable)
    /\ show_date_in_top_panel' =
           IF cosmic_applet_config'.show_date_in_top_panel = Some(m.enable)
           THEN m.enable ELSE show_date_in_top_panel
    /\ UNCHANGED <<first_day_of_week, military_time, ntp_enabled, local_time,
                   timezone, timezone_list, formatted_date, tasks, panicked>>

UpdateShowDate(m) ==
    /\ m.kind = "ShowDate"
    /\ show_date_in_top_panel' = m.enable
    /\ ConfigSet("show_date_in_top_panel", m.enable)
    /\ UNCHANGED <<first_day_of_week, military_time, ntp_enabled, local_time,
                   timezone, timezone_list, formatted_date, tasks, panicked>>

\* Variant of UpdateTimezone: the selection is stored only when the index names
\* an entry of the list.
UpdateTimezoneChecked(m) ==
    /\ m.kind = "Timezone"
    /\ LET entry == get(timezone_list, m.index)
       IN  IF entry /= None
           THEN /\ CanSpawn
                /\ timezone' = Some(m.index)
                /\ tasks' = Spawn(NewTask("Timezone", FALSE, entry[1], m.index))
           ELSE timezone' = timezone /\ tasks' = tasks
    /\ UNCHANGED <<first_day_of_week, military_time, ntp_enabled,
                   show_date_in_top_panel, local_time, timezone_list,
                   formatted_date, cosmic_applet_config, panicked>>

UpdateTimezone(m) ==
    /\ m.kind = "Timezone"
    /\ timezone' = Some(m.index)
    /\ LET entry == get(timezone_list, m.index)
       IN  IF entry /= None
           THEN /\ CanSpawn
                /\ tasks' = Spawn(NewTask("Timezone", FALSE, entry[1], m.index))
           ELSE tasks' = tasks
    /\ UNCHANGED <<first_day_of_week, military_time, ntp_enabled,
                   show_date_in_top_panel, local_time, timezone_list,
                   formatted_date, cosmic_applet_config, panicked>>

\* Variant of UpdateError: a reported failure clears the selection.
UpdateErrorRollback(m) ==
    /\ m.kind = "Error"
    /\ timezone' = None
    /\ UNCHANGED <<first_day_of_week, military_time, ntp_enabled,
                   show_date_in_top_panel, local_time, timezone_list,
                   formatted_date, cosmic_applet_config, tasks, panicked>>

UpdateError(m) ==
    /\ m.kind = "Error"
    /\ UNCHANGED <<page, cosmic_applet_config, tasks, panicked>>

UpdateUpdateTime(m) ==
    /\ m.kind = "UpdateTime"
    /\ update_local_time(military_time)
    /\ UNCHANGED <<first_day_of_week, military_time, ntp_enabled,
                   show_date_in_top_panel, timezone, timezone_list,
                   cosmic_applet_config, tasks>>

\* Variant of UpdateRefresh: the selection is taken over only when the lookup
\* found one; otherwise the previous selection stays.
UpdateRefreshKeepSelection(m) ==
    /\ m.kind = "Refresh"
    /\ ntp_enabled' = m.info.ntp_enabled
    /\ timezone_list' = m.info.timezone_list
    /\ timezone' = IF m.info.timezone_id = None THEN timezone ELSE m.info.timezone_id
    /\ update_local_time(military_time)
    /\ UNCHANGED <<first_day_of_week, military_time, show_date_in_top_panel,
                   cosmic_applet_config, tasks>>

\* Variant of UpdateRefresh: once the user has used the automatic-sync toggle,
\* a refresh no longer replaces ntp_enabled.
UpdateRefreshFenced(m) ==
    /\ m.kind = "Refresh"
    /\ ntp_enabled' = IF "Automatic" \in applied THEN ntp_enabled
                      ELSE m.info.ntp_enabled
    /\ timezone_list' = m.info.timezone_list
    /\ timezone' = m.info.timezone_id
    /\ update_local_time(military_time)
    /\ UNCHANGED <<first_day_of_week, military_time, show_date_in_top_panel,
                   cosmic_applet_config, tasks>>

UpdateRefresh(m) ==
    /\ m.kind = "Refresh"
    /\ ntp_enabled' = m.info.ntp_enabled
    /\ timezone_list' = m.info.timezone_list
    /\ timezone' = m.info.timezone_id
    /\ update_local_time(military_time)
    /\ UNCHANGED <<first_day_of_week, military_time, show_date_in_top_panel,
                   cosmic_applet_config, tasks>>

UpdateNone(m) ==
    /\ m.kind = "None"
    /\ UNCHANGED <<page, cosmic_applet_config, tasks, panicked>>

\* the kinds of message `applied` keeps track of
Tracked == {"Refresh", "Automatic"}

\* Page::update on message m, which `origin` produced
update(m, origin) ==
    /\ ~panicked
    /\ \/ UpdateAutomatic(m)
       \/ UpdateMilitaryTime(m)
       \/ UpdateFirstDayOfWeek(m)
       \/ UpdateShowDate(m)
       \/ UpdateTimezone(m)
       \/ UpdateError(m)
       \/ UpdateUpdateTime(m)
       \/ UpdateRefresh(m)
       \/ UpdateNone(m)
    /\ last' = [message |-> m, origin |-> origin]
    /\ applied' = applied \cup ({m.kind} \cap Tracked)
    /\ UNCHANGED <<service, LANG, now>>

\* a widget of the page sends one of `messages`
Gesture(messages) == \E m \in messages : update(m, Ui) /\ UNCHANGED inbox

\* the runtime hands the oldest finished future's message to the reducer
Deliver ==
    /\ inbox /= <<>>
    /\ update(Head(inbox).message, Head(inbox).origin)
    /\ inbox' = Tail(inbox)

----------------------------------------------------------------------------
(* The futures: Page::on_enter, and the ones Page::update spawns.          *)

\* Page::on_enter: the page becomes active and starts its refresh
on_enter ==
    /\ ~panicked
    /\ CanSpawn
    /\ tasks' = Spawn(NewTask("on_enter", FALSE, "", 0))
    /\ last' = Idle
    /\ UNCHANGED <<page, cosmic_applet_config, service, LANG, now, inbox, panicked, applied>>

\* The future returns message m: a command future hands it to the runtime.
Finish(t, m) ==
    /\ tasks' = Retire(t)
    /\ inbox' = Append(inbox, [message |-> m, origin |-> t])

\* Variant of Abort: a connection error is defaulted like a failed query, and
\* the activation still returns Message::Refresh.
AbortDefaulted(t, why) ==
    IF t.kind = "Automatic"
    THEN tasks' = Retire(t) /\ inbox' = inbox
    ELSE IF t.kind = "on_enter"
    THEN Finish(t, Refresh([ntp_enabled |-> t.ntp_enabled,
                            timezone_id |-> position(t.timezone_list, ""),
                            timezone_list |-> t.timezone_list]))
    ELSE Finish(t, Error(why))

\* A connection error: the command futures return Message::Error, the future
\* spawned for Message::Automatic logs and returns nothing.
Abort(t, why) ==
    IF t.kind = "Automatic"
    THEN tasks' = Retire(t) /\ inbox' = inbox
    ELSE Finish(t, Error(why))

\* the await the future reaches once its proxy exists
FirstCall(t) ==
    CASE t.kind = "on_enter"  -> "can_ntp"
      [] t.kind = "Automatic" -> "set_ntp"
      [] t.kind = "Timezone"  -> "set_timezone"

\* zbus::Connection::system().await
Connect(t) ==
    /\ t.pc = "connect"
    /\ \E ok \in BOOLEAN :
           IF ok THEN tasks' = Step(t, [t EXCEPT !.pc = "proxy"]) /\ inbox' = inbox
           ELSE Abort(t, "connect")
    /\ UNCHANGED service

\* TimeDateProxy::new(&client).await
NewProxy(t) ==
    /\ t.pc = "proxy"
    /\ \E ok \in BOOLEAN :
           IF ok THEN tasks' = Step(t, [t EXCEPT !.pc = FirstCall(t)]) /\ inbox' = inbox
           ELSE Abort(t, "proxy")
    /\ UNCHANGED service

\* the replies a query of the service's property `value` can get: an error, or it
Replies(value) == {None, Some(value)}

\* Variant of CanNtp: a failed capability query counts as "can".
CanNtpAssumed(t) ==
    /\ t.pc = "can_ntp"
    /\ \E reply \in Replies(service.can_ntp) :
           LET can_ntp == unwrap_or_default(reply, TRUE)
           IN  tasks' = Step(t, [t EXCEPT !.can_ntp_reply = reply,
                                          !.can_ntp = can_ntp,
                                          !.ntp_enabled = FALSE,
                                          !.pc = IF can_ntp THEN "ntp"
                                                 ELSE "list_timezones"])
    /\ UNCHANGED <<service, inbox>>

\* timedate_proxy.can_ntp().await.unwrap_or_default(), and the short circuit of &&
CanNtp(t) ==
    /\ t.pc = "can_ntp"
    /\ \E reply \in Replies(service.can_ntp) :
           LET can_ntp == unwrap_or_default(reply, FALSE)
           IN  tasks' = Step(t, [t EXCEPT !.can_ntp_reply = reply,
                                          !.can_ntp = can_ntp,
                                          !.ntp_enabled = FALSE,
                                          !.pc = IF can_ntp THEN "ntp"
                                                 ELSE "list_timezones"])
    /\ UNCHANGED <<service, inbox>>

\* can_ntp && timedate_proxy.ntp().await.unwrap_or_default()
Ntp(t) ==
    /\ t.pc = "ntp"
    /\ \E reply \in Replies(service.ntp) :
           tasks' = Step(t, [t EXCEPT !.ntp_reply = reply,
                                      !.ntp_enabled =
                                          t.can_ntp /\ unwrap_or_default(reply, FALSE),
                                      !.pc = "list_timezones"])
    /\ UNCHANGED <<service, inbox>>

\* timedate_proxy.list_timezones().await.unwrap_or_default()
ListTimezones(t) ==
    /\ t.pc = "list_timezones"
    /\ \E reply \in Replies(service.timezones) :
           tasks' = Step(t, [t EXCEPT !.list_reply = reply,
                                      !.timezone_list = unwrap_or_default(reply, <<>>),
                                      !.pc = "timezone"])
    /\ UNCHANGED <<service, inbox>>

\* the Info the activation packs from what it has read
RefreshInfo(ntp, list, tz) ==
    [ntp_enabled |-> ntp, timezone_id |-> position(list, tz), timezone_list |-> list]

\* timedate_proxy.timezone().await.unwrap_or_default(), then Message::Refresh
CurrentTimezone(t) ==
    /\ t.pc = "timezone"
    /\ \E reply \in Replies(service.timezone) :
           LET tz == unwrap_or_default(reply, "")
               u  == [t EXCEPT !.timezone_reply = reply, !.timezone = tz, !.pc = "done"]
           IN  /\ tasks' = Retire(t)
               /\ inbox' = Append(inbox,
                      [message |-> Refresh(RefreshInfo(t.ntp_enabled, t.timezone_list, tz)),
                       origin |-> u])
    /\ UNCHANGED service

\* Variant of SetNtp: a failed call is reported to the reducer.
SetNtpReported(t) ==
    /\ t.pc = "set_ntp"
    /\ \E ok \in BOOLEAN :
           IF ok
           THEN /\ service' = [service EXCEPT !.ntp = t.enable]
                /\ tasks' = Retire(t)
                /\ inbox' = inbox
           ELSE /\ service' = service
                /\ Finish(t, Error("set_ntp"))

\* _ = timedate_proxy.set_ntp(enable, true).await
SetNtp(t) ==
    /\ t.pc = "set_ntp"
    /\ \E ok \in BOOLEAN :
           service' = IF ok THEN [service EXCEPT !.ntp = t.enable] ELSE service
    /\ tasks' = Retire(t)
    /\ UNCHANGED inbox

\* Variant of SetTimezone: a failed call is only logged, like a failed set_ntp.
SetTimezoneSilent(t) ==
    /\ t.pc = "set_timezone"
    /\ \E ok \in BOOLEAN :
           IF ok
           THEN /\ service' = [service EXCEPT !.timezone = t.timezone]
                /\ Finish(t, UpdateTime)
           ELSE /\ service' = service
                /\ tasks' = Retire(t)
                /\ inbox' = inbox

\* timedate_proxy.set_timezone(&timezone, true).await and its match
SetTimezone(t) ==
    /\ t.pc = "set_timezone"
    /\ \E ok \in BOOLEAN :
           IF ok
           THEN /\ service' = [service EXCEPT !.timezone = t.timezone]
                /\ Finish(t, UpdateTime)
           ELSE /\ service' = service
                /\ Finish(t, Error("set_timezone"))

\* one await of one future completes
Poll ==
    /\ ~panicked
    /\ \E t \in BagToSet(tasks) :
           \/ Connect(t)
           \/ NewProxy(t)
           \/ CanNtp(t)
           \/ Ntp(t)
           \/ ListTimezones(t)
           \/ CurrentTimezone(t)
           \/ SetNtp(t)
           \/ SetTimezone(t)
    /\ last' = Idle
    /\ UNCHANGED <<page, cosmic_applet_config, LANG, now, panicked, applied>>

\* time passes: the wall clock moves on to its next reading
Advance ==
    /\ ~panicked
    /\ now < Len(ClockSamples)
    /\ now' = now + 1
    /\ last' = Idle
    /\ UNCHANGED <<page, cosmic_applet_config, service, LANG, tasks, inbox, panicked, applied>>

----------------------------------------------------------------------------
(* Specifications.                                                         *)

\* the store of a first run: no key is set yet
FreshConfig ==
    [military_time |-> None, first_day_of_week |-> None, show_date_in_top_panel |-> None]

\* the states the time service may be in when the page is constructed
Services ==
    [can_ntp : BOOLEAN, ntp : BOOLEAN, timezone : CurrentTimezones,
     timezones : {ServiceTimezones}]

English == Some(<<"en_US", "UTF-8">>)

Widgets(kinds) == {m \in UiMessages : m.kind \in kinds}

\* The page is entered and the automatic-sync toggle is used.
Init == Construct({FreshConfig}, Services, {English})
Next == Gesture(Widgets({"Automatic", "None"})) \/ Deliver \/ on_enter \/ Poll
Spec == Init /\ [][Next]_vars

\* The page is entered and the timezone dropdown is used.
InitTimezone ==
    Construct({FreshConfig}, {sv \in Services : sv.can_ntp /\ sv.ntp}, {English})
NextTimezone == Gesture(Widgets({"Timezone"})) \/ Deliver \/ on_enter \/ Poll
SpecTimezone == InitTimezone /\ [][NextTimezone]_vars

\* The page is entered while no future is in flight, and the 24-hour toggle and
\* the timezone dropdown are used, with LANG naming a usable locale or one the
\* formatter lacks.
InitFormat ==
    Construct({FreshConfig},
              {sv \in Services : ~sv.can_ntp /\ ~sv.ntp /\ sv.timezone = "UTC"},
              {English, Some(<<"tlh">>)})
NextFormat ==
    Gesture(Widgets({"MilitaryTime", "Timezone"})) \/ Deliver
    \/ (InFlight = 0 /\ on_enter) \/ Poll
SpecFormat == InitFormat /\ [][NextFormat]_vars

\* The widgets of the format section are used over any stored configuration,
\* while time passes.
InitConfig ==
    Construct(StoredConfigs,
              {sv \in Services : ~sv.can_ntp /\ ~sv.ntp /\ sv.timezone = "UTC"},
              LangValues)
NextConfig ==
    Gesture(Widgets({"MilitaryTime", "FirstDayOfWeek", "ShowDate", "None"}))
    \/ Advance
SpecConfig == InitConfig /\ [][NextConfig]_vars

\* The page is entered while no future is in flight and the timezone dropdown
\* is used, under any value of LANG.
InitLocale ==
    Construct({FreshConfig},
              {sv \in Services : ~sv.can_ntp /\ ~sv.ntp /\ sv.timezone = "UTC"},
              LangValues)
NextLocale ==
    Gesture(Widgets({"Timezone"})) \/ Deliver \/ (InFlight = 0 /\ on_enter) \/ Poll
SpecLocale == InitLocale /\ [][NextLocale]_vars

\* the executor resumes a set-timezone future for entry i
ResumeTimezone(i) ==
    /\ Poll
    /\ \E t \in BagToSet(tasks) :
           /\ t.kind = "Timezone" /\ t.index = i
           /\ CopiesIn(t, tasks') < CopiesIn(t, tasks)

\* The executor does not leave the set-timezone futures for one entry waiting
\* for ever, and the runtime hands every queued message to the reducer.
Fairness ==
    /\ WF_vars(Deliver)
    /\ \A i \in 0..MaxIndex : WF_vars(ResumeTimezone(i))

\* The page is entered while no future is in flight and the timezone dropdown
\* is used, under a fair executor and an English locale.
InitFair ==
    Construct({FreshConfig},
              {sv \in Services : ~sv.can_ntp /\ ~sv.ntp /\ sv.timezone = "UTC"},
              {English})
SpecFair == InitFair /\ [][NextLocale]_vars /\ Fairness

\* The page is entered while no future is in flight, and the timezone dropdown
\* is used next to a widget whose message is Message::None.
NextFault ==
    Gesture(Widgets({"Timezone", "None"})) \/ Deliver
    \/ (InFlight = 0 /\ on_enter) \/ Poll
SpecFault == InitFair /\ [][NextFault]_vars

----------------------------------------------------------------------------
(* Properties.                                                             *)

\* the last transition was the reducer applying an activation's message of `kind`
Activation(kind) == last.origin.kind = "on_enter" /\ last.message.kind = kind

\* futures of Page::on_enter still running, and their messages not yet applied
RunningActivations ==
    BagCardinality([t \in {u \in BagToSet(tasks) : u.kind = "on_enter"} |-> tasks[t]])
QueuedActivations ==
    Cardinality({i \in 1..Len(inbox) : inbox[i].origin.kind = "on_enter"})

\* a reply that is present and true
Yes(reply) == reply /= None /\ reply[1]

\* C1: in every reachable state timezone_selection is None or an index strictly
\* smaller than the length of timezone_list.
C1_SelectionInRange == timezone = None \/ timezone[1] < Len(timezone_list)

\* C2: an activation that ends hands over exactly one message, which the reducer
\* applies once.  It is Error exactly when the connection or the proxy failed,
\* and applying it changes no field of the page; otherwise it is Refresh, and
\* applying it sets ntp_enabled, timezone_list and timezone together from the
\* one Info it carries.
C2_OneMessageAllOrNothing ==
    [][ /\ RunningActivations' < RunningActivations
            => /\ RunningActivations' = RunningActivations - 1
               /\ QueuedActivations' = QueuedActivations + 1
        /\ QueuedActivations' < QueuedActivations
            => /\ QueuedActivations' = QueuedActivations - 1
               /\ last'.origin.kind = "on_enter"
               /\ last'.message = Head(inbox).message
        /\ last'.origin.kind = "on_enter"
            => /\ last'.message.kind \in {"Error", "Refresh"}
               /\ last'.message.kind = "Error"
                    <=> last'.origin.pc \in {"connect", "proxy"}
               /\ last'.message.kind = "Error" => page' = page
               /\ last'.message.kind = "Refresh"
                    => /\ last'.origin.pc = "done"
                       /\ ntp_enabled' = last'.message.info.ntp_enabled
                       /\ timezone_list' = last'.message.info.timezone_list
                       /\ timezone' = last'.message.info.timezone_id
      ]_vars

\* C2 witness: an activation's Error has just been applied to a page that an
\* earlier Refresh had filled, and the page still holds the list.
C2_Witness ==
    /\ Activation("Error")
    /\ last.origin.pc = "proxy"
    /\ timezone_list = ServiceTimezones
    /\ timezone = Some(1)

\* C3: an activation whose timezone-list query or current-timezone query failed
\* ends in Error, like one whose connection failed.
C3_RpcFaultIsFault ==
    ( /\ last.origin.kind = "on_enter"
      /\ last.origin.pc = "done"
      /\ (last.origin.list_reply = None \/ last.origin.timezone_reply = None) )
    => last.message.kind = "Error"

\* C4: right after an activation's Refresh is applied, timezone_list is the list
\* the activation fetched and timezone is the position of the first entry equal
\* to the timezone string the activation obtained, None when no entry equals it.
C4_SelectionIsLookup ==
    Activation("Refresh") =>
        LET list == last.origin.timezone_list
            tz   == last.origin.timezone
        IN  /\ last.origin.list_reply /= None => list = last.origin.list_reply[1]
            /\ last.origin.timezone_reply /= None => tz = last.origin.timezone_reply[1]
            /\ timezone_list = list
            /\ (\A i \in 1..Len(list) : list[i] /= tz) => timezone = None
            /\ (\E i \in 1..Len(list) : list[i] = tz)
                 => /\ timezone /= None
                    /\ timezone[1] < Len(list)
                    /\ list[timezone[1] + 1] = tz
                    /\ \A j \in 1..timezone[1] : list[j] /= tz

\* C4 witness: the service's list was fetched, its current timezone is not an
\* entry of it, and the Refresh just applied left no selection.
C4_Witness ==
    /\ Activation("Refresh")
    /\ last.origin.timezone_reply = Some("Etc/Custom")
    /\ timezone_list = ServiceTimezones
    /\ timezone = None

\* C5: right after an activation's Refresh is applied, ntp_enabled is the
\* conjunction of the can-NTP reply and the is-active reply, a failed or unasked
\* query counting as false; so without the capability it is false.
C5_NtpIsCanAndActive ==
    Activation("Refresh") =>
        /\ ntp_enabled = (Yes(last.origin.can_ntp_reply) /\ Yes(last.origin.ntp_reply))
        /\ ~Yes(last.origin.can_ntp_reply) => ~ntp_enabled

\* C5 witness: the service reports NTP active but not available, and the
\* Refresh just applied left ntp_enabled false.
C5_Witness ==
    /\ Activation("Refresh")
    /\ last.origin.can_ntp_reply = Some(FALSE)
    /\ service.ntp
    /\ ~ntp_enabled

\* C6 as claimed: ntp_enabled is false in every state reached before the first
\* Refresh has been applied, whatever other messages were applied.
C6_FalseUntilRefreshed == "Refresh" \notin applied => ~ntp_enabled

\* C6 as amended: ntp_enabled is false in every state reached before the first
\* Refresh or Automatic message has been applied.
C6_FalseUntilRefreshedOrSet == applied = {} => ~ntp_enabled

\* C6 witness: an activation failed and its Error was applied before any
\* Refresh or Automatic.
C6_Witness == applied = {} /\ Activation("Error") /\ ~ntp_enabled

\* C7: after every completed reducer step with a time sample present,
\* formatted_date is format_date of the current sample and 24-hour flag.
C7_FormattedDateFresh ==
    (~panicked /\ local_time /= None)
        => formatted_date = format_date(local_time[1], military_time)

\* C7 witness: the 24-hour flag has just been switched on over a page showing
\* a time, and the string already shows the 24-hour form.
C7_Witness ==
    /\ last.message = MilitaryTime(TRUE)
    /\ timezone_list /= <<>>
    /\ local_time = Some(ClockSamples[1])
    /\ formatted_date = "March 9, 2024, 00:05"

\* C8: whenever no time sample has been computed, formatted_date is the
\* "unknown" placeholder.
C8_PlaceholderWithoutSample == local_time = None => formatted_date = fl_unknown

\* C9: right after MilitaryTime, FirstDayOfWeek or ShowDate is applied, the field
\* in memory is the value the message carried, whether or not the write to the
\* store landed; and no message or future results from the write.
C9_OptimisticUpdate ==
    /\ last.message.kind = "MilitaryTime" => military_time = last.message.enable
    /\ last.message.kind = "FirstDayOfWeek" => first_day_of_week = last.message.index
    /\ last.message.kind = "ShowDate" => show_date_in_top_panel = last.message.enable
    /\ last.message.kind \in {"MilitaryTime", "FirstDayOfWeek", "ShowDate"}
         => inbox = <<>> /\ tasks = EmptyBag

\* C9 witness: ShowDate(true) was applied, its write failed (the store still
\* holds false), and memory holds true.
C9_Witness ==
    /\ last.message = ShowDate(TRUE)
    /\ cosmic_applet_config.show_date_in_top_panel = Some(FALSE)
    /\ show_date_in_top_panel

\* C10: decoding the stored code and encoding the result gives the code back
\* for 4, 5 and 0 (entries 0, 1 and 3); every other code decodes to entry 2,
\* which encodes to 6.
C10_CodecManyToOne ==
    LET code  == first_day_of_week
        shown == selected_weekday(code)
    IN  /\ shown /= None
        /\ code = 4 => shown[1] = 0
        /\ code = 5 => shown[1] = 1
        /\ code = 0 => shown[1] = 3
        /\ code \in {4, 5, 0} => weekday_code(shown[1]) = code
        /\ code \notin {4, 5, 0} => shown[1] = 2 /\ weekday_code(shown[1]) = 6

\* C10 witness: the store held 2 (Wednesday); the dropdown shows entry 2, whose
\* code is 6, not 2.
C10_Witness ==
    /\ first_day_of_week = 2
    /\ selected_weekday(first_day_of_week) = Some(2)
    /\ weekday_code(2) = 6

\* the message of a set-timezone future whose call succeeded
Completion(entry) == entry.message = UpdateTime /\ entry.origin.kind = "Timezone"

\* the reducer applies the second of two set-timezone completions in a row, and
\* nothing else is in flight
SecondCompletion ==
    /\ Completion(last)
    /\ Len(inbox) = 1
    /\ Completion(Head(inbox))
    /\ tasks = EmptyBag
    /\ inbox' = <<>>

\* C11 as claimed: when two Timezone requests were in flight together and both
\* calls succeeded, timezone after both completions are applied is the index of
\* the request whose call completed last.
C11_LastCompletedWins ==
    [][ SecondCompletion => timezone' = Some(Head(inbox).origin.index) ]_vars

\* C11 as amended: timezone is set to the index when the Timezone message is
\* applied, and applying a completion leaves it as it is; so after both
\* completions it is the index of the request applied last, in every order of
\* the two completions.
C11_LastAppliedWins ==
    [][ /\ last'.message.kind = "Timezone" => timezone' = Some(last'.message.index)
        /\ (inbox /= <<>> /\ Completion(Head(inbox)) /\ inbox' = Tail(inbox))
             => timezone' = timezone
      ]_vars

\* C11 witness: entry 0 was requested, then entry 1; the call for entry 1
\* completed first and its completion has just been applied, the call for entry
\* 0 completed last (the service holds its identifier) and its completion is
\* queued, and timezone is 1.
C11_Witness ==
    /\ Completion(last)
    /\ last.origin.index = 1
    /\ Len(inbox) = 1
    /\ Completion(Head(inbox))
    /\ Head(inbox).origin.index = 0
    /\ service.timezone = Head(inbox).origin.timezone
    /\ tasks = EmptyBag
    /\ timezone = Some(1)

\* C12: no reducer step is cut short by a fault: whether the locale cannot be
\* determined or the formatter cannot be built for it, the step completes and
\* formatted_date is the empty string.
C12_NoFaultTerminates ==
    [][ /\ ~panicked'
        /\ (last'.message.kind \in {"MilitaryTime", "UpdateTime", "Refresh"}
              /\ (locale = None \/ format_date_panics))
             => formatted_date' = ""
      ]_vars

\* C13 as claimed: after a Timezone request with an index in range whose call
\* succeeded, the UpdateTime that results leaves local_time present and
\* formatted_date non-empty.
C13_TickShowsDate ==
    Completion(last) => local_time /= None /\ formatted_date /= ""

\* C13 as amended: the UpdateTime that results leaves local_time present, and
\* formatted_date is empty exactly when LANG gives no usable locale.
C13_TickShowsDateGivenLocale ==
    Completion(last) =>
        /\ local_time /= None
        /\ formatted_date = "" <=> locale = None

\* C13 witness: entry 0 of the fetched list was requested, the call succeeded,
\* and its UpdateTime left the date string of the current reading.
C13_Witness ==
    /\ Completion(last)
    /\ last.origin.index = 0
    /\ last.origin.timezone = ServiceTimezones[1]
    /\ service.timezone = ServiceTimezones[1]
    /\ local_time = Some(ClockSamples[1])
    /\ formatted_date = "March 9, 2024, 12:05 AM"

\* set-timezone futures still running, and their messages not yet applied
RunningTimezones ==
    BagCardinality([t \in {u \in BagToSet(tasks) : u.kind = "Timezone"} |-> tasks[t]])
QueuedTimezones ==
    Cardinality({i \in 1..Len(inbox) : inbox[i].origin.kind = "Timezone"})

\* a set-timezone future for entry i is running
RunningFor(i) == \E t \in BagToSet(tasks) : t.kind = "Timezone" /\ t.index = i
\* the reducer has just applied the message of a set-timezone future for entry i
DeliveredFor(i) ==
    /\ last.origin.kind = "Timezone"
    /\ last.origin.index = i
    /\ last.message.kind \in {"UpdateTime", "Error"}

\* what applying Message::Timezone and running its future may do in one step
TimezoneFutureStep ==
    /\ last'.message.kind = "Timezone" =>
          LET i == last'.message.index
          IN  /\ inbox' = inbox
              /\ IF i < Len(timezone_list)
                 THEN tasks' = tasks (+) SetToBag({NewTask("Timezone", FALSE,
                                                          timezone_list[i + 1], i)})
                 ELSE tasks' = tasks
    /\ RunningTimezones' > RunningTimezones => last'.message.kind = "Timezone"
    /\ RunningTimezones' < RunningTimezones =>
          /\ RunningTimezones' = RunningTimezones - 1
          /\ QueuedTimezones' = QueuedTimezones + 1
          /\ LET e == inbox'[Len(inbox')]
             IN  /\ e.origin.kind = "Timezone"
                 /\ e.message.kind \in {"UpdateTime", "Error"}
                 /\ e.message.kind = "UpdateTime" =>
                       /\ e.origin.pc = "set_timezone"
                       /\ service'.timezone = e.origin.timezone
                 /\ e.message.kind = "Error" =>
                       /\ e.message.why = e.origin.pc
                       /\ service' = service
    /\ QueuedTimezones' > QueuedTimezones => RunningTimezones' = RunningTimezones - 1
    /\ QueuedTimezones' < QueuedTimezones =>
          /\ QueuedTimezones' = QueuedTimezones - 1
          /\ last' = Head(inbox)

\* C14: Timezone(i) spawns a set-timezone future exactly when i is smaller than
\* the length of timezone_list at that moment, for the identifier at position
\* i; out of range nothing is spawned and no message results.  A future hands
\* over exactly one message, UpdateTime after a successful call and Error
\* after a failed connection or call, and under fairness the reducer
\* eventually applies it.
C14_TimezoneFutureDelivers ==
    /\ [][TimezoneFutureStep]_vars
    /\ \A i \in 0..MaxIndex : RunningFor(i) ~> DeliveredFor(i)

\* C14 witness: entry 1 was requested, the call failed, and the Error of that
\* future has just been applied; the service's timezone is not entry 1.
C14_Witness ==
    /\ DeliveredFor(1)
    /\ last.message = Error("set_timezone")
    /\ last.origin.timezone = ServiceTimezones[2]
    /\ service.timezone /= ServiceTimezones[2]
    /\ timezone = Some(1)

\* set-NTP futures still running
RunningSetNtp ==
    BagCardinality([t \in {u \in BagToSet(tasks) : u.kind = "Automatic"} |-> tasks[t]])

\* C15: right after Automatic(e) is applied ntp_enabled is e; the future it
\* spawned ends without handing over a message, whether the connection or the
\* call failed or succeeded; and ntp_enabled changes only when an Automatic or
\* a Refresh message is applied.
C15_SetNtpIsSilent ==
    [][ /\ last'.message.kind = "Automatic" =>
              /\ ntp_enabled' = last'.message.enable
              /\ RunningSetNtp' = RunningSetNtp + 1
              /\ inbox' = inbox
        /\ RunningSetNtp' < RunningSetNtp =>
              /\ RunningSetNtp' = RunningSetNtp - 1
              /\ inbox' = inbox
        /\ \A i \in 1..Len(inbox') : inbox'[i].origin.kind /= "Automatic"
        /\ last'.origin.kind /= "Automatic"
        /\ ntp_enabled' /= ntp_enabled => last'.message.kind \in {"Automatic", "Refresh"}
      ]_vars

\* C15 witness: Automatic(true) was applied, its connection or call failed (the
\* service still has NTP off), the future is gone, nothing is queued, a None message
\* has been applied since, and ntp_enabled is still true.
C15_Witness ==
    /\ ntp_enabled
    /\ ~service.ntp
    /\ "Refresh" \notin applied
    /\ "Automatic" \in applied
    /\ tasks = EmptyBag
    /\ inbox = <<>>
    /\ last.message = NoneMessage

\* C16: applying Error or None changes no field of the page, nothing in the
\* store, and spawns nothing; so the Error of a failed set_timezone call
\* leaves the selection its Timezone message made.
C16_FaultAndNoOpChangeNothing ==
    [][ last'.message.kind \in {"Error", "None"} =>
            /\ page' = page
            /\ cosmic_applet_config' = cosmic_applet_config
            /\ tasks' = tasks
            /\ ~panicked'
      ]_vars

\* C16 witness: entry 0 was requested, the call failed, its Error has just
\* been applied, and timezone still names entry 0 while the service keeps its
\* own timezone.
C16_Witness ==
    /\ last.message = Error("set_timezone")
    /\ last.origin.kind = "Timezone"
    /\ last.origin.index = 0
    /\ timezone = Some(0)
    /\ timezone_list = ServiceTimezones
    /\ service.timezone = "UTC"

\* the reducer applies the oldest queued message, an activation's Refresh
RefreshApplied ==
    /\ inbox /= <<>>
    /\ Head(inbox).origin.kind = "on_enter"
    /\ Head(inbox).message.kind = "Refresh"
    /\ inbox' = Tail(inbox)

\* no future is dropped and no queued message is dropped or overtaken
NothingCancelled ==
    /\ \A t \in BagToSet(tasks) :
          CopiesIn(t, tasks') < CopiesIn(t, tasks) =>
              /\ last' = Idle
              /\ BagCardinality(tasks') >= BagCardinality(tasks) - 1
              /\ t.kind = "Automatic" \/ Len(inbox') >= Len(inbox)
    /\ inbox' /= inbox =>
          \/ inbox /= <<>> /\ inbox' = Tail(inbox) /\ last' = Head(inbox)
          \/ Len(inbox') = Len(inbox) + 1 /\ SubSeq(inbox', 1, Len(inbox)) = inbox

\* C17: futures in flight and queued messages are never cancelled, and an
\* activation's Refresh is applied with the values the activation read,
\* whatever was applied since it read them: it replaces ntp_enabled and
\* timezone, also those a later Automatic or Timezone message has set.
C17_StaleRefreshOverwrites ==
    [][ /\ NothingCancelled
        /\ RefreshApplied =>
              /\ ntp_enabled' = Head(inbox).origin.ntp_enabled
              /\ timezone' = position(Head(inbox).origin.timezone_list,
                                      Head(inbox).origin.timezone)
      ]_vars

\* C17 witness: an activation read NTP as off and queued its Refresh; then the
\* user's Automatic(true) was applied, so ntp_enabled is true; the Refresh
\* with the older value is next to be applied.
C17_Witness ==
    /\ last.message = Automatic(TRUE)
    /\ ntp_enabled
    /\ Len(inbox) = 1
    /\ Head(inbox).origin.kind = "on_enter"
    /\ Head(inbox).message.kind = "Refresh"
    /\ Head(inbox).origin.ntp_reply = Some(FALSE)
    /\ ~Head(inbox).message.info.ntp_enabled

\* C18: timezone_list is empty until the first Refresh is applied, only
\* applying a Refresh changes it, and a Refresh leaves it equal to the list
\* the time service returns, in the same order.
C18_ListOnlyFromService ==
    [][ /\ "Refresh" \notin applied => timezone_list = <<>>
        /\ timezone_list' /= timezone_list => last'.message.kind = "Refresh"
        /\ RefreshApplied => timezone_list' = service.timezones
      ]_vars

\* the persisted keys, the field of the page each one backs, the value
\* Page::default falls back to, and the message whose arm writes it
Keys == {"military_time", "first_day_of_week", "show_date_in_top_panel"}
Memory(key) ==
    CASE key = "military_time" -> military_time
      [] key = "first_day_of_week" -> first_day_of_week
      [] key = "show_date_in_top_panel" -> show_date_in_top_panel
FallBack(key) ==
    CASE key = "military_time" -> FALSE
      [] key = "first_day_of_week" -> DefaultFirstDayOfWeek
      [] key = "show_date_in_top_panel" -> TRUE
Writer(key) ==
    CASE key = "military_time" -> "MilitaryTime"
      [] key = "first_day_of_week" -> "FirstDayOfWeek"
      [] key = "show_date_in_top_panel" -> "ShowDate"
\* what reading the key gives, as Page::default reads it
Stored(key) == unwrap_or_default(cosmic_applet_config[key], FallBack(key))

\* one step, seen from one key: a write of it lands, and store and memory
\* agree, or fails, and the store keeps what it held; any other step leaves
\* both alone
StoreFollowsMemory(key) ==
    IF last'.message.kind = Writer(key)
    THEN \/ Stored(key)' = Memory(key)'
         \/ cosmic_applet_config'[key] = cosmic_applet_config[key]
    ELSE /\ Memory(key)' = Memory(key)
         /\ cosmic_applet_config'[key] = cosmic_applet_config[key]

\* C19: for each persisted key the store, read as Page::default reads it,
\* agrees with the field in memory at construction and after every write that
\* landed; they differ only after a write that failed, and the store then
\* still holds the last write that landed, or what it held at construction.
\* A construction or a step cut short by a panic leaves no page to compare.
C19_StoreFollowsMemory ==
    /\ ~panicked => \A key \in Keys : Stored(key) = Memory(key)
    /\ [][ ~panicked' => \A key \in Keys : StoreFollowsMemory(key) ]_vars

\* C19 witness: MilitaryTime(false) was written, then the write of
\* MilitaryTime(true) failed: memory holds true, the store still false.
C19_Witness ==
    /\ last.message = MilitaryTime(TRUE)
    /\ ~panicked
    /\ military_time
    /\ cosmic_applet_config.military_time = Some(FALSE)

\* the entries of the first-day-of-week dropdown
WeekdayEntries == 0..(WeekdayCount - 1)

\* C20: for every entry v of the dropdown, the code sent for v decodes to v
\* again; and right after the dropdown's FirstDayOfWeek message is applied,
\* first_day_of_week is one of 0, 4, 5, 6 and the dropdown shows the entry
\* that was selected.
C20_DropdownRoundTrip ==
    /\ \A v \in WeekdayEntries : selected_weekday(weekday_code(v)) = Some(v)
    /\ last.message.kind = "FirstDayOfWeek" =>
          /\ first_day_of_week \in {0, 4, 5, 6}
          /\ \E v \in WeekdayEntries : weekday_code(v) = last.message.index
          /\ \A v \in WeekdayEntries :
                weekday_code(v) = last.message.index
                    => selected_weekday(first_day_of_week) = Some(v)

\* C20 witness: the store held 2 (Wednesday); entry 3 (Monday) was selected,
\* code 0 was applied, and the dropdown shows entry 3.
C20_Witness ==
    /\ last.message = FirstDayOfWeek(weekday_code(3))
    /\ first_day_of_week = 0
    /\ selected_weekday(first_day_of_week) = Some(3)
    /\ cosmic_applet_config.first_day_of_week = Some(2)

====
